---- MODULE Spec2Model ----
(***************************************************************************)
(* A model of psorter (src/main.rs): the three pixel metrics, the run      *)
(* detection into_intervals, the row-wise pixel sort of sort_image, the    *)
(* command-line driver main and the per-frame threshold logic of gui_main. *)
(***************************************************************************)
EXTENDS Integers, Sequences, FiniteSets, TLC

(***************************************************************************)
(* IEEE-754 binary32 arithmetic, as the metrics use it.  A finite f32 is   *)
(* the record [s, m, e] of value s * m * 2^e with s in {1, -1} and either  *)
(* m = 0 (zero, kept as [1, 0, 0]) or 2^23 <= m < 2^24.  Every operation   *)
(* rounds to nearest, ties to even.  No value of the program leaves the    *)
(* normal range, so subnormals, infinities and NaN are not represented.    *)
(***************************************************************************)
RECURSIVE Pow2(_)
Pow2(n) == IF n = 0 THEN 1 ELSE 2 * Pow2(n - 1)

RECURSIVE BitLen(_)
BitLen(n) == IF n = 0 THEN 0 ELSE 1 + BitLen(n \div 2)

F32Zero == [s |-> 1, m |-> 0, e |-> 0]

\* Rounds s * M * 2^e (0 <= M < 2^30) to an f32.  When M carries a sticky
\* bit in its lowest position at least two bits are dropped, so that bit
\* only ever decides "above or below the half".
RECURSIVE RoundPack(_, _, _)
RoundPack(s, M, e) ==
    IF M = 0 THEN F32Zero
    ELSE IF M < 8388608 THEN RoundPack(s, 2 * M, e - 1)
    ELSE IF M < 16777216 THEN [s |-> s, m |-> M, e |-> e]
    ELSE LET k    == BitLen(M) - 24
             q    == M \div Pow2(k)
             r    == M % Pow2(k)
             half == Pow2(k - 1)
             up   == r > half \/ (r = half /\ q % 2 = 1)
             q2   == IF up THEN q + 1 ELSE q
         IN  IF q2 = 16777216
             THEN [s |-> s, m |-> 8388608, e |-> e + k + 1]
             ELSE [s |-> s, m |-> q2, e |-> e + k]

\* `n as f32` for a small integer n (exact).
F32FromInt(n) == RoundPack(IF n < 0 THEN -1 ELSE 1, IF n < 0 THEN -n ELSE n, 0)

F32Neg(x) == IF x.m = 0 THEN x ELSE [x EXCEPT !.s = -x.s]

F32Abs(x) == [x EXCEPT !.s = 1]

\* n with its lowest bit set when `sticky`.
Jam(n, sticky) == IF sticky /\ n % 2 = 0 THEN n + 1 ELSE n

\* x + y.  The operand of larger exponent gets three extra low bits (guard,
\* round, sticky); the other is aligned to it.
F32Add(x, y) ==
    IF x.m = 0 THEN y
    ELSE IF y.m = 0 THEN x
    ELSE LET hi == IF x.e >= y.e THEN x ELSE y
             lo == IF x.e >= y.e THEN y ELSE x
             d  == hi.e - lo.e
             X  == hi.m * 8
             Y  == IF d <= 3 THEN lo.m * Pow2(3 - d)
                   ELSE IF d - 3 >= 24 THEN 1
                   ELSE Jam(lo.m \div Pow2(d - 3), lo.m % Pow2(d - 3) # 0)
             S  == hi.s * X + lo.s * Y
         IN  RoundPack(IF S < 0 THEN -1 ELSE 1, IF S < 0 THEN -S ELSE S, hi.e - 3)

F32Sub(x, y) == F32Add(x, F32Neg(y))

\* x * y.  The 48-bit product of the mantissas is built from 12-bit halves
\* and cut to its top 27 bits, the rest jammed into the sticky bit.
F32Mul(x, y) ==
    IF x.m = 0 \/ y.m = 0 THEN F32Zero
    ELSE LET a1  == x.m \div 4096
             a0  == x.m % 4096
             b1  == y.m \div 4096
             b0  == y.m % 4096
             t1  == a1 * b0 + a0 * b1
             low == a0 * b0 + (t1 % 4096) * 4096
             lo  == low % 16777216
             Hi  == a1 * b1 + t1 \div 4096 + low \div 16777216
             Pr  == Jam(Hi * 8 + lo \div 2097152, lo % 2097152 # 0)
         IN  RoundPack(x.s * y.s, Pr, x.e + y.e + 21)

\* n further quotient bits of r / d by shift-and-subtract: <<quotient, remainder>>.
RECURSIVE DivStep(_, _, _, _)
DivStep(q, r, d, n) ==
    IF n = 0 THEN <<q, r>>
    ELSE IF 2 * r >= d THEN DivStep(2 * q + 1, 2 * r - d, d, n - 1)
    ELSE DivStep(2 * q, 2 * r, d, n - 1)

\* x / y for y # 0.
F32Div(x, y) ==
    IF x.m = 0 THEN F32Zero
    ELSE LET qr == DivStep(x.m \div y.m, x.m % y.m, y.m, 26)
         IN  RoundPack(x.s * y.s, Jam(qr[1], qr[2] # 0), x.e - y.e - 26)

F32Less(x, y) ==
    LET magLess(a, b) == IF a.m = 0 THEN b.m # 0
                         ELSE b.m # 0 /\ (a.e < b.e \/ (a.e = b.e /\ a.m < b.m))
    IN  IF x.s = 1 /\ y.s = 1 THEN magLess(x, y)
        ELSE IF x.s = -1 /\ y.s = -1 THEN magLess(y, x)
        ELSE x.s = -1

\* f32::min and f32::max.
F32Min(x, y) == IF F32Less(y, x) THEN y ELSE x

F32Max(x, y) == IF F32Less(x, y) THEN y ELSE x

\* `x as u16`: truncation toward zero, saturating at 0 and 65535.
F32ToU16(x) ==
    IF x.m = 0 \/ x.s = -1 THEN 0
    ELSE IF x.e >= 0 THEN 65535
    ELSE IF -x.e >= 24 THEN 0
    ELSE LET t == x.m \div Pow2(-x.e) IN IF t > 65535 THEN 65535 ELSE t

(***************************************************************************)
(* Pixels and metrics.  A pixel is <<red, green, blue, alpha>>, each       *)
(* channel in 0..255.                                                      *)
(***************************************************************************)
SortBy == {"Luminance", "Hue", "Saturation"}

threshold_upper_boundary(method) ==
    IF method = "Hue" THEN 360 ELSE 255

\* pixel.to_luma()[0] as u16: the image crate's integer Rec. 709 weighting
\* of an Rgba<u8> pixel.
luminance(pixel) ==
    (2126 * pixel[1] + 7152 * pixel[2] + 722 * pixel[3]) \div 10000

\* The `else { panic!("how?") }` branch of hue: max is none of the channels.
HuePanics(pixel) ==
    LET red   == F32FromInt(pixel[1])
        green == F32FromInt(pixel[2])
        blue  == F32FromInt(pixel[3])
        min   == F32Min(blue, F32Min(red, green))
        max   == F32Max(blue, F32Max(red, green))
    IN  max # min /\ max # red /\ max # green /\ max # blue

\* hue with `hue <= 0.0` for `hue < 0.0`: a raw hue of zero is wrapped to 360.
hue_wrap_nonpositive(pixel) ==
    LET red   == F32FromInt(pixel[1])
        green == F32FromInt(pixel[2])
        blue  == F32FromInt(pixel[3])
        min   == F32Min(blue, F32Min(red, green))
        max   == F32Max(blue, F32Max(red, green))
        range == F32Sub(max, min)
        sect  == IF max = red THEN F32Div(F32Sub(green, blue), range)
                 ELSE IF max = green
                 THEN F32Add(F32FromInt(2), F32Div(F32Sub(blue, red), range))
                 ELSE F32Add(F32FromInt(4), F32Div(F32Sub(red, green), range))
        h     == F32Mul(sect, F32FromInt(60))
    IN  IF max = min THEN 0
        ELSE IF HuePanics(pixel) THEN -1
        ELSE F32ToU16(IF ~F32Less(F32Zero, h) THEN F32Add(h, F32FromInt(360)) ELSE h)

\* hue; -1 stands for the panic.
hue(pixel) ==
    LET red   == F32FromInt(pixel[1])
        green == F32FromInt(pixel[2])
        blue  == F32FromInt(pixel[3])
        min   == F32Min(blue, F32Min(red, green))
        max   == F32Max(blue, F32Max(red, green))
        range == F32Sub(max, min)
        sect  == IF max = red THEN F32Div(F32Sub(green, blue), range)
                 ELSE IF max = green
                 THEN F32Add(F32FromInt(2), F32Div(F32Sub(blue, red), range))
                 ELSE F32Add(F32FromInt(4), F32Div(F32Sub(red, green), range))
        h     == F32Mul(sect, F32FromInt(60))
    IN  IF max = min THEN 0
        ELSE IF HuePanics(pixel) THEN -1
        ELSE F32ToU16(IF F32Less(h, F32Zero) THEN F32Add(h, F32FromInt(360)) ELSE h)

saturation(pixel) ==
    LET c255  == F32FromInt(255)
        red   == F32Div(F32FromInt(pixel[1]), c255)
        green == F32Div(F32FromInt(pixel[2]), c255)
        blue  == F32Div(F32FromInt(pixel[3]), c255)
        min   == F32Min(blue, F32Min(red, green))
        max   == F32Max(blue, F32Max(red, green))
        lum   == F32Div(F32Add(max, min), F32FromInt(2))
        sat   == F32Sub(F32FromInt(1),
                        F32Abs(F32Sub(F32Mul(F32FromInt(2), lum), F32FromInt(1))))
    IN  IF max = min THEN 0 ELSE F32ToU16(F32Mul(sat, c255))

\* Pixels of the images sorted: two of equal hue, two of equal saturation,
\* all of different luminance.
Palette == {<<200, 30, 30, 255>>, <<30, 200, 30, 255>>, <<10, 10, 10, 0>>}

\* The metrics are pure: their values on the pixels sorted, computed once.
PixelKeys ==
    [method \in SortBy |->
        [pixel \in Palette |->
            IF method = "Hue" THEN hue(pixel)
            ELSE IF method = "Saturation" THEN saturation(pixel)
            ELSE luminance(pixel)]]

\* The `pixel_property` selected at the head of sort_image, applied.
pixel_property(method, pixel) == PixelKeys[method][pixel]

(***************************************************************************)
(* into_intervals.  An Option<usize> is a sequence of length at most one.  *)
(* Indices are the code's, from 0; bitmap[i] of the code is bitmap[i + 1]. *)
(***************************************************************************)
\* The `for i in 0..bitmap.len()` loop from index i on: <<result, interval_start>>.
RECURSIVE IntervalsLoop(_, _, _, _)
IntervalsLoop(bitmap, i, result, interval_start) ==
    IF i >= Len(bitmap) THEN <<result, interval_start>>
    ELSE IF bitmap[i + 1] = FALSE /\ interval_start # <<>>
    THEN IntervalsLoop(bitmap, i + 1, Append(result, <<interval_start[1], i>>), <<>>)
    ELSE IF bitmap[i + 1] = TRUE /\ interval_start = <<>>
    THEN IntervalsLoop(bitmap, i + 1, result, <<i>>)
    ELSE IntervalsLoop(bitmap, i + 1, result, interval_start)

\* into_intervals without its closing `if interval_start.is_some()`.
into_intervals_unclosed(bitmap) == IntervalsLoop(bitmap, 0, <<>>, <<>>)[1]

into_intervals(bitmap) ==
    LET after == IntervalsLoop(bitmap, 0, <<>>, <<>>)
    IN  IF after[2] # <<>>
        THEN Append(after[1], <<after[2][1], Len(bitmap)>>)
        ELSE after[1]

(***************************************************************************)
(* sort_image.  The RGBA buffer is the row-major sequence of its pixels:   *)
(* pixel (xi, yi) of an image of width w is element yi * w + xi + 1.       *)
(***************************************************************************)
get_pixel(image, w, xi, yi) == image[yi * w + xi + 1]

\* put_pixel that drops the row offset.
put_pixel_first_row(image, w, xi, yi, pixel) == [image EXCEPT ![xi + 1] = pixel]

put_pixel(image, w, xi, yi, pixel) == [image EXCEPT ![yi * w + xi + 1] = pixel]

\* The bitmap of row yi: accepted_range.contains(&value) for each column.
pixel_bitmap(image, w, yi, lower, higher, method) ==
    [x \in 1..w |->
        LET value == pixel_property(method, get_pixel(image, w, x - 1, yi))
        IN  lower <= value /\ value <= higher]

\* The pixels of columns start..end of row yi, in order.
interval_pixels(image, w, yi, start, end) ==
    [i \in 1..(end - start) |-> get_pixel(image, w, start + i - 1, yi)]

\* InsertByKey with the comparison reversed (b.cmp(a)).
RECURSIVE InsertByKeyDescending(_, _, _)
InsertByKeyDescending(sorted, pixel, method) ==
    IF sorted = <<>> THEN <<pixel>>
    ELSE IF pixel_property(method, Head(sorted)) >= pixel_property(method, pixel)
    THEN <<Head(sorted)>> \o InsertByKeyDescending(Tail(sorted), pixel, method)
    ELSE <<pixel>> \o sorted

\* The place an unstable sort may give `pixel`: before the elements of equal key.
RECURSIVE InsertBeforeEqual(_, _, _)
InsertBeforeEqual(sorted, pixel, method) ==
    IF sorted = <<>> THEN <<pixel>>
    ELSE IF pixel_property(method, Head(sorted)) < pixel_property(method, pixel)
    THEN <<Head(sorted)>> \o InsertBeforeEqual(Tail(sorted), pixel, method)
    ELSE <<pixel>> \o sorted

\* Where a stable sort places `pixel` among already sorted earlier elements:
\* behind every element whose key is not greater.
RECURSIVE InsertByKey(_, _, _)
InsertByKey(sorted, pixel, method) ==
    IF sorted = <<>> THEN <<pixel>>
    ELSE IF pixel_property(method, Head(sorted)) <= pixel_property(method, pixel)
    THEN <<Head(sorted)>> \o InsertByKey(Tail(sorted), pixel, method)
    ELSE <<pixel>> \o sorted

\* pixels.sort_unstable_by(...) in one of its outcomes.
RECURSIVE pixels_sort_unstable_by(_, _)
pixels_sort_unstable_by(pixels, method) ==
    IF pixels = <<>> THEN <<>>
    ELSE InsertBeforeEqual(pixels_sort_unstable_by(SubSeq(pixels, 1, Len(pixels) - 1), method),
                           pixels[Len(pixels)], method)

\* pixels.sort_by(|a, b| pixel_property(&a).cmp(&pixel_property(&b))): the
\* slice's stable sort, whose result is the unique stable ascending order.
RECURSIVE pixels_sort_by(_, _)
pixels_sort_by(pixels, method) ==
    IF pixels = <<>> THEN <<>>
    ELSE InsertByKey(pixels_sort_by(SubSeq(pixels, 1, Len(pixels) - 1), method),
                     pixels[Len(pixels)], method)

\* write_back that writes pixels[0] for pixels[i].
RECURSIVE write_back_first(_, _, _, _, _, _)
write_back_first(image, w, yi, start, pixels, i) ==
    IF i >= Len(pixels) THEN image
    ELSE write_back_first(put_pixel(image, w, start + i, yi, pixels[1]),
                          w, yi, start, pixels, i + 1)

\* The `for i in 0..pixels.len()` write-back loop from index i on.
RECURSIVE write_back(_, _, _, _, _, _)
write_back(image, w, yi, start, pixels, i) ==
    IF i >= Len(pixels) THEN image
    ELSE write_back(put_pixel(image, w, start + i, yi, pixels[i + 1]),
                    w, yi, start, pixels, i + 1)

\* The body of `for interval in intervals`, from the k-th interval on.
RECURSIVE sort_intervals(_, _, _, _, _, _)
sort_intervals(image, w, yi, intervals, k, method) ==
    IF k > Len(intervals) THEN image
    ELSE LET start  == intervals[k][1]
             end    == intervals[k][2]
             pixels == pixels_sort_by(interval_pixels(image, w, yi, start, end), method)
         IN  sort_intervals(write_back(image, w, yi, start, pixels, 0),
                            w, yi, intervals, k + 1, method)

\* One iteration of `for yi in 0..height`.
sort_row(image, w, yi, lower, higher, method) ==
    sort_intervals(image, w, yi,
                   into_intervals(pixel_bitmap(image, w, yi, lower, higher, method)),
                   1, method)

(***************************************************************************)
(* main.  A command-line argument is the sequence of its characters.       *)
(***************************************************************************)
DigitValue(c) ==
    CASE c = "0" -> 0 [] c = "1" -> 1 [] c = "2" -> 2 [] c = "3" -> 3 [] c = "4" -> 4
      [] c = "5" -> 5 [] c = "6" -> 6 [] c = "7" -> 7 [] c = "8" -> 8 [] c = "9" -> 9
      [] OTHER -> -1

\* The digit loop of str::parse::<u16>: <<n>> for Ok(n), <<>> for Err (a
\* character that is no digit, or a value above 65535).
RECURSIVE ParseDigits(_, _, _)
ParseDigits(str, i, acc) ==
    IF i > Len(str) THEN <<acc>>
    ELSE IF DigitValue(str[i]) < 0 THEN <<>>
    ELSE IF acc * 10 + DigitValue(str[i]) > 65535 THEN <<>>
    ELSE ParseDigits(str, i + 1, acc * 10 + DigitValue(str[i]))

\* arg.parse::<u16>(): digits after an optional "+".
ParseU16(str) ==
    IF str = <<>> THEN <<>>
    ELSE IF str[1] = "+" THEN (IF Len(str) = 1 THEN <<>> ELSE ParseDigits(str, 2, 0))
    ELSE ParseDigits(str, 1, 0)

\* The match on the first argument: <<method>>, or <<>> for the `_` arm.
ParseMethod(arg) ==
    IF arg = <<"l">> THEN <<"Luminance">>
    ELSE IF arg = <<"h">> THEN <<"Hue">>
    ELSE IF arg = <<"s">> THEN <<"Saturation">>
    ELSE <<>>

\* u16::clamp(value, min, max) for min <= max (it panics otherwise).
clamp(value, min, max) ==
    IF value < min THEN min ELSE IF value > max THEN max ELSE value

(***************************************************************************)
(* State.  Four groups of variables, one per entry point modelled: a call  *)
(* of one metric, a call of into_intervals, a call of sort_image, and a    *)
(* run of main (command line or GUI).  A specification runs one group and  *)
(* holds the others at rest.  lower_threshold and higher_threshold are the *)
(* locals of that name of main and of gui_main and the arguments of        *)
(* sort_image; sorting_method is main's local and sort_image's argument.   *)
(***************************************************************************)
VARIABLES
    kpixel, kmethod, kvalue, kpc,            \* a metric call: argument, metric, result
    ibitmap, iresult, ipc,                   \* an into_intervals call: argument, result
    lower_threshold, higher_threshold,
    sorting_method,
    file, img, width, height, yi,            \* sort_image: the file at `path`, the
    saved, result, pc,                       \*   buffer, its dimensions, the row
                                             \*   counter, the file written, the outcome
    args, mpc, exit_code,                    \* main: the arguments left, where it is,
    calls, stderr,                           \*   <<status>> once exited, the calls of
                                             \*   sort_image made, the paths reported
    sort_by, clamp_panicked                  \* gui_main: the metric, a clamp panicked

kvars == <<kpixel, kmethod, kvalue, kpc>>
ivars == <<ibitmap, iresult, ipc>>
tvars == <<lower_threshold, higher_threshold, sorting_method>>
svars == <<file, img, width, height, yi, saved, result, pc>>
mvars == <<args, mpc, exit_code, calls, stderr, sort_by, clamp_panicked>>
vars  == <<kvars, ivars, tvars, svars, mvars>>

KeyIdle == kpixel = <<0, 0, 0, 0>> /\ kmethod = "Luminance" /\ kvalue = 0 /\ kpc = "idle"

IntervalIdle == ibitmap = <<>> /\ iresult = <<>> /\ ipc = "idle"

ThresholdsIdle ==
    lower_threshold = 0 /\ higher_threshold = 0 /\ sorting_method = "Luminance"

SortIdle ==
    /\ file = [width |-> 0, height |-> 0, pixels |-> <<>>]
    /\ img = <<>> /\ width = 0 /\ height = 0 /\ yi = 0
    /\ saved = <<>> /\ result = "none" /\ pc = "idle"

MainIdle ==
    /\ args = <<>> /\ mpc = "idle" /\ exit_code = <<>> /\ calls = <<>> /\ stderr = <<>>
    /\ sort_by = "Luminance" /\ clamp_panicked = FALSE

(***************************************************************************)
(* Bounds of the model.                                                    *)
(***************************************************************************)
\* Metric calls take their channels from the multiples of ChannelStep.
ChannelStep == 15

\* into_intervals is called on every bitmap of at most MaxBitmapLen entries.
MaxBitmapLen == 7

\* sort_image runs on every image of at most MaxPixels pixels.
MaxPixels == 6

Channels == {c \in 0..255 : c % ChannelStep = 0} \cup {1, 2, 127, 128, 254, 255}

KeyPixels == {<<r, g, b, a>> : r \in Channels, g \in Channels, b \in Channels, a \in {255}}

Bitmaps == UNION {[1..n -> BOOLEAN] : n \in 0..MaxBitmapLen}

\* Threshold pairs main can pass on (lower <= higher).  With the palette,
\* each metric has a pair taking every pixel, one leaving pixels out at the
\* low end and one leaving pixels out at the high end.
Thresholds == {<<0, 100>>, <<0, 255>>, <<50, 255>>, <<100, 360>>}

Shapes == {d \in (1..MaxPixels) \X (1..MaxPixels) : d[1] * d[2] <= MaxPixels}

Images ==
    UNION {[width : {d[1]}, height : {d[2]}, pixels : [1..(d[1] * d[2]) -> Palette]] :
           d \in Shapes}

(***************************************************************************)
(* A metric call.                                                          *)
(***************************************************************************)
KeyInit ==
    /\ kpixel \in KeyPixels /\ kmethod = "Luminance" /\ kvalue = 0 /\ kpc = "call"
    /\ IntervalIdle /\ ThresholdsIdle /\ SortIdle /\ MainIdle

CallLuminance ==
    /\ kpc = "call"
    /\ kmethod' = "Luminance" /\ kvalue' = luminance(kpixel) /\ kpc' = "returned"
    /\ UNCHANGED <<kpixel, ivars, tvars, svars, mvars>>

CallHue ==
    /\ kpc = "call"
    /\ kmethod' = "Hue" /\ kvalue' = hue(kpixel) /\ kpc' = "returned"
    /\ UNCHANGED <<kpixel, ivars, tvars, svars, mvars>>

CallSaturation ==
    /\ kpc = "call"
    /\ kmethod' = "Saturation" /\ kvalue' = saturation(kpixel) /\ kpc' = "returned"
    /\ UNCHANGED <<kpixel, ivars, tvars, svars, mvars>>

KeyNext == CallLuminance \/ CallHue \/ CallSaturation

KeySpec == KeyInit /\ [][KeyNext]_vars

(***************************************************************************)
(* An into_intervals call.                                                 *)
(***************************************************************************)
IntervalInit ==
    /\ ibitmap \in Bitmaps /\ iresult = <<>> /\ ipc = "call"
    /\ KeyIdle /\ ThresholdsIdle /\ SortIdle /\ MainIdle

CallIntoIntervals ==
    /\ ipc = "call"
    /\ iresult' = into_intervals(ibitmap) /\ ipc' = "returned"
    /\ UNCHANGED <<ibitmap, kvars, tvars, svars, mvars>>

IntervalNext == CallIntoIntervals

IntervalSpec == IntervalInit /\ [][IntervalNext]_vars

(***************************************************************************)
(* A sort_image call.                                                      *)
(***************************************************************************)
Init ==
    /\ file \in Images
    /\ \E t \in Thresholds : lower_threshold = t[1] /\ higher_threshold = t[2]
    /\ sorting_method \in SortBy
    /\ img = <<>> /\ width = 0 /\ height = 0 /\ yi = 0
    /\ saved = <<>> /\ result = "none" /\ pc = "open"
    /\ KeyIdle /\ IntervalIdle /\ MainIdle

\* image::open(path)?.into_rgba8() and img.dimensions(): the file decodes.
OpenOk ==
    /\ pc = "open"
    /\ img' = file.pixels /\ width' = file.width /\ height' = file.height
    /\ yi' = 0 /\ pc' = "rows"
    /\ UNCHANGED <<file, saved, result, kvars, ivars, tvars, mvars>>

\* image::open(path)?: the file is missing or does not decode.
OpenErr ==
    /\ pc = "open"
    /\ result' = "Err" /\ pc' = "returned"
    /\ UNCHANGED <<file, img, width, height, yi, saved, kvars, ivars, tvars, mvars>>

\* One iteration of `for yi in 0..height`.
SortRow ==
    /\ pc = "rows" /\ yi < height
    /\ img' = sort_row(img, width, yi, lower_threshold, higher_threshold, sorting_method)
    /\ yi' = yi + 1
    /\ UNCHANGED <<file, width, height, saved, result, pc, kvars, ivars, tvars, mvars>>

\* img.save(format!("sorted-{}", file_name)) succeeds.
SaveOk ==
    /\ pc = "rows" /\ yi = height
    /\ saved' = img /\ result' = "Ok" /\ pc' = "returned"
    /\ UNCHANGED <<file, img, width, height, yi, kvars, ivars, tvars, mvars>>

\* img.save fails (the output cannot be written).
SaveErr ==
    /\ pc = "rows" /\ yi = height
    /\ result' = "Err" /\ pc' = "returned"
    /\ UNCHANGED <<file, img, width, height, yi, saved, kvars, ivars, tvars, mvars>>

Next == OpenOk \/ OpenErr \/ SortRow \/ SaveOk \/ SaveErr

Spec == Init /\ [][Next]_vars
(***************************************************************************)
(* A run of main: the command line, or with no argument the GUI.           *)
(***************************************************************************)
\* main is started with at most MaxArgs arguments.
MaxArgs == 5

\* The sliders are moved to the multiples of SliderStep (and to 255).
SliderStep == 60

ArgTokens ==
    {<<"l">>, <<"h">>, <<"s">>, <<"x">>, <<"0">>, <<"2", "5", "5">>, <<"3", "0", "0">>,
     <<"a", ".", "p", "n", "g">>}

ArgLists == UNION {[1..n -> ArgTokens] : n \in 0..MaxArgs}

SliderStops == {v \in 0..360 : v % SliderStep = 0} \cup {255}

\* What ui.add(egui::Slider::new(&mut value, 0..=upper_boundary)) leaves in
\* `value`: a position of the slider or, untouched, the value it held.
SliderOutputs(value, upper_boundary) ==
    {v \in SliderStops : v <= upper_boundary} \cup {value}

MainInit ==
    /\ args \in ArgLists /\ mpc = "start" /\ exit_code = <<>>
    /\ calls = <<>> /\ stderr = <<>>
    /\ sort_by = "Luminance" /\ clamp_panicked = FALSE
    /\ ThresholdsIdle /\ KeyIdle /\ IntervalIdle /\ SortIdle

Exit(code) == mpc' = "exited" /\ exit_code' = <<code>>

\* args.len() == 0 and gui_main opens its window.
MainGui ==
    /\ mpc = "start" /\ Len(args) = 0
    /\ lower_threshold' = 0 /\ higher_threshold' = 255 /\ sort_by' = "Luminance"
    /\ mpc' = "gui"
    /\ UNCHANGED <<args, exit_code, calls, stderr, clamp_panicked, sorting_method,
                   kvars, ivars, svars>>

\* args.len() == 0 and gui_main returns Err: exit(1).
MainGuiErr ==
    /\ mpc = "start" /\ Len(args) = 0
    /\ Exit(1)
    /\ UNCHANGED <<args, calls, stderr, sort_by, clamp_panicked, kvars, ivars, tvars, svars>>

\* 0 < args.len() < 4: the usage line and exit(1).
MainUsage ==
    /\ mpc = "start" /\ 0 < Len(args) /\ Len(args) < 4
    /\ Exit(1)
    /\ UNCHANGED <<args, calls, stderr, sort_by, clamp_panicked, kvars, ivars, tvars, svars>>

\* The first argument is none of l, h, s: exit(1).
MainBadMethod ==
    /\ mpc = "start" /\ Len(args) >= 4
    /\ ParseMethod(args[1]) = <<>>
    /\ Exit(1)
    /\ UNCHANGED <<args, calls, stderr, sort_by, clamp_panicked, kvars, ivars, tvars, svars>>

\* A threshold does not parse: .expect("ERROR: threshold must be an integer")
\* panics, and the process ends with status 101.
MainBadThreshold ==
    /\ mpc = "start" /\ Len(args) >= 4
    /\ ParseMethod(args[1]) # <<>>
    /\ ParseU16(args[2]) = <<>> \/ ParseU16(args[3]) = <<>>
    /\ Exit(101)
    /\ UNCHANGED <<args, calls, stderr, sort_by, clamp_panicked, kvars, ivars, tvars, svars>>

\* lower_threshold > higher_threshold: exit(1).
MainBadOrder ==
    /\ mpc = "start" /\ Len(args) >= 4
    /\ ParseMethod(args[1]) # <<>>
    /\ ParseU16(args[2]) # <<>> /\ ParseU16(args[3]) # <<>>
    /\ ParseU16(args[2])[1] > ParseU16(args[3])[1]
    /\ Exit(1)
    /\ UNCHANGED <<args, calls, stderr, sort_by, clamp_panicked, kvars, ivars, tvars, svars>>

\* The arguments are accepted: main reaches `for path in args`.
MainAccept ==
    /\ mpc = "start" /\ Len(args) >= 4
    /\ ParseMethod(args[1]) # <<>>
    /\ ParseU16(args[2]) # <<>> /\ ParseU16(args[3]) # <<>>
    /\ ParseU16(args[2])[1] <= ParseU16(args[3])[1]
    /\ sorting_method' = ParseMethod(args[1])[1]
    /\ lower_threshold' = ParseU16(args[2])[1]
    /\ higher_threshold' = ParseU16(args[3])[1]
    /\ args' = SubSeq(args, 4, Len(args))
    /\ mpc' = "loop"
    /\ UNCHANGED <<exit_code, calls, stderr, sort_by, clamp_panicked, kvars, ivars, svars>>

\* The call of sort_image main makes for the next path.
SortImageCall ==
    [lower_threshold |-> lower_threshold, higher_threshold |-> higher_threshold,
     path |-> Head(args), sorting_method |-> sorting_method]

\* One iteration of `for path in args` in which sort_image returns Ok.
MainSortOk ==
    /\ mpc = "loop" /\ args # <<>>
    /\ calls' = Append(calls, SortImageCall)
    /\ args' = Tail(args)
    /\ UNCHANGED <<mpc, exit_code, stderr, sort_by, clamp_panicked, kvars, ivars, tvars, svars>>

\* One iteration in which sort_image returns Err: the path is reported.
MainSortErr ==
    /\ mpc = "loop" /\ args # <<>>
    /\ calls' = Append(calls, SortImageCall)
    /\ stderr' = Append(stderr, Head(args))
    /\ args' = Tail(args)
    /\ UNCHANGED <<mpc, exit_code, sort_by, clamp_panicked, kvars, ivars, tvars, svars>>

\* The loop is over and main returns: the process ends with status 0.
MainReturn ==
    /\ mpc = "loop" /\ args = <<>>
    /\ Exit(0)
    /\ UNCHANGED <<args, calls, stderr, sort_by, clamp_panicked, kvars, ivars, tvars, svars>>

\* One frame of the GUI closure: the two sliders, then the buttons.
GuiFrame ==
    /\ mpc = "gui"
    /\ LET upper_boundary == threshold_upper_boundary(sort_by)
       IN  \E new_lower_threshold \in SliderOutputs(lower_threshold, upper_boundary),
              new_higher_threshold \in SliderOutputs(higher_threshold, upper_boundary),
              clicked \in SortBy \cup {"none"} :
             LET lower == clamp(new_lower_threshold, 0, higher_threshold)
             IN  /\ lower_threshold' = lower
                 /\ IF lower > upper_boundary
                    THEN \* clamp(lower_threshold, upper_boundary) asserts min <= max
                         /\ clamp_panicked' = TRUE
                         /\ Exit(101)
                         /\ UNCHANGED <<higher_threshold, sort_by>>
                    ELSE /\ higher_threshold' = clamp(new_higher_threshold, lower, upper_boundary)
                         /\ sort_by' = IF clicked = "none" THEN sort_by ELSE clicked
                         /\ UNCHANGED <<clamp_panicked, mpc, exit_code>>
    /\ UNCHANGED <<args, calls, stderr, sorting_method, kvars, ivars, svars>>

\* The window is closed: gui_main returns Ok and main exits with 0.
GuiClose ==
    /\ mpc = "gui"
    /\ Exit(0)
    /\ UNCHANGED <<args, calls, stderr, sort_by, clamp_panicked, kvars, ivars, tvars, svars>>

MainNext ==
    \/ MainGui \/ MainGuiErr \/ MainUsage \/ MainBadMethod \/ MainBadThreshold
    \/ MainBadOrder \/ MainAccept \/ MainSortOk \/ MainSortErr \/ MainReturn
    \/ GuiFrame \/ GuiClose

MainSpec == MainInit /\ [][MainNext]_vars
(***************************************************************************)
(* Properties.                                                             *)
(***************************************************************************)
Range(seq) == {seq[i] : i \in DOMAIN seq}

Count(seq, x) == Cardinality({i \in DOMAIN seq : seq[i] = x})

SameBag(a, b) == \A x \in Range(a) \cup Range(b) : Count(a, x) = Count(b, x)

\* Row y of a buffer of the current width.
Row(image, y) == [x \in 1..width |-> get_pixel(image, width, x - 1, y)]

\* The runs sort_image computes for row y of `image`.
Runs(image, y) ==
    into_intervals(pixel_bitmap(image, width, y, lower_threshold, higher_threshold,
                                sorting_method))

InRun(runs, xi) == \E k \in 1..Len(runs) : runs[k][1] <= xi /\ xi < runs[k][2]

Key(pixel) == pixel_property(sorting_method, pixel)

\* sort_image is about to process row yi.
AtRow == pc = "rows" /\ yi < height

\* The rows sort_image has processed.
Processed == IF pc \in {"rows", "returned"} THEN 0..(yi - 1) ELSE {}

\* C1: processing a row permutes the pixels of each of its runs (the runs of
\* the row as it was) and leaves every pixel outside the runs as it was.
PermutationAndFrame ==
    [][AtRow =>
        LET runs == Runs(img, yi)
        IN  /\ \A k \in 1..Len(runs) :
                 SameBag(interval_pixels(img', width, yi, runs[k][1], runs[k][2]),
                         interval_pixels(img, width, yi, runs[k][1], runs[k][2]))
            /\ \A xi \in 0..(width - 1) :
                 ~InRun(runs, xi) =>
                     get_pixel(img', width, xi, yi) = get_pixel(img, width, xi, yi)]_vars

\* A processed row that sorting changed and that has a pixel outside its runs.
PermutedRowWithFrame ==
    \E y \in Processed :
        /\ Row(img, y) # Row(file.pixels, y)
        /\ \E xi \in 0..(width - 1) : ~InRun(Runs(file.pixels, y), xi)

\* C2: once a row is processed, the keys within each of its runs ascend.
AscendingRuns ==
    [][AtRow =>
        LET runs == Runs(img, yi)
        IN  \A k \in 1..Len(runs) :
              \A i, j \in runs[k][1]..(runs[k][2] - 1) :
                i < j => Key(get_pixel(img', width, i, yi)) <= Key(get_pixel(img', width, j, yi))]_vars

\* A processed row one of whose runs was out of order in the file.
UnorderedRunSorted ==
    \E y \in Processed :
      LET runs == Runs(file.pixels, y)
      IN  \E k \in 1..Len(runs) :
            \E i, j \in runs[k][1]..(runs[k][2] - 1) :
              /\ i < j
              /\ Key(get_pixel(file.pixels, width, i, y)) > Key(get_pixel(file.pixels, width, j, y))

\* C4: sorting a processed row again changes no pixel of the buffer.
RowSortIdempotent ==
    \A y \in Processed :
        sort_row(img, width, y, lower_threshold, higher_threshold, sorting_method) = img

\* A processed row that sorting changed and in which two different pixels of
\* the same key lie side by side in a run.
SortedRowWithEqualKeys ==
    \E y \in Processed :
        /\ Row(img, y) # Row(file.pixels, y)
        /\ \E xi \in 0..(width - 2) :
             /\ get_pixel(img, width, xi, y) # get_pixel(img, width, xi + 1, y)
             /\ Key(get_pixel(img, width, xi, y)) = Key(get_pixel(img, width, xi + 1, y))
             /\ \E k \in 1..Len(Runs(img, y)) :
                  Runs(img, y)[k][1] <= xi /\ xi + 1 < Runs(img, y)[k][2]

\* C8: processing row yi changes no pixel of another row and not the
\* dimensions, and the row it leaves is the one sorting that row alone, as an
\* image of one row, gives: the result does not depend on the order of rows.
RowIndependence ==
    [][AtRow =>
        /\ \A y \in 0..(height - 1) : y # yi => Row(img', y) = Row(img, y)
        /\ Len(img') = Len(img) /\ width' = width /\ height' = height
        /\ Row(img', yi) = sort_row(Row(img, yi), width, 0, lower_threshold,
                                    higher_threshold, sorting_method)]_vars

\* An image of several rows, all processed, two of them changed by sorting.
TwoRowsSorted ==
    /\ pc = "rows" /\ yi = height
    /\ \E y1, y2 \in 0..(height - 1) :
         /\ y1 # y2
         /\ Row(img, y1) # Row(file.pixels, y1)
         /\ Row(img, y2) # Row(file.pixels, y2)

\* C3: into_intervals returns the maximal runs of true entries: half-open
\* intervals within the bitmap, covering exactly the true indices, disjoint,
\* ascending and never adjacent; [(0, N)] for an all-true bitmap of N > 0
\* entries and nothing for an all-false one.
IntervalsAreTheRuns ==
    ipc = "returned" =>
        LET N == Len(ibitmap)
            R == iresult
        IN  /\ \A k \in 1..Len(R) : 0 <= R[k][1] /\ R[k][1] < R[k][2] /\ R[k][2] <= N
            /\ {i \in 0..(N - 1) : ibitmap[i + 1]}
                 = UNION {R[k][1]..(R[k][2] - 1) : k \in 1..Len(R)}
            /\ \A j, k \in 1..Len(R) : j < k => R[j][1] < R[k][1] /\ R[j][2] < R[k][1]
            /\ \A k \in 1..Len(R) :
                 /\ R[k][1] = 0 \/ ~ibitmap[R[k][1]]
                 /\ R[k][2] = N \/ ~ibitmap[R[k][2] + 1]
            /\ (N > 0 /\ \A i \in 1..N : ibitmap[i]) => R = << <<0, N>> >>
            /\ (\A i \in 1..N : ~ibitmap[i]) => R = <<>>

\* A bitmap of two runs, the second open at the end of the row.
TwoRunsLastOpen ==
    /\ ipc = "returned"
    /\ ibitmap = <<TRUE, FALSE, TRUE, TRUE>>
    /\ iresult = << <<0, 1>>, <<2, 4>> >>

\* C7: luminance and saturation lie in 0..255 and hue in 0..359, and hue
\* does not reach its panic.
KeysInDomain ==
    kpc = "returned" =>
        /\ ~HuePanics(kpixel)
        /\ kmethod = "Hue" => 0 <= kvalue /\ kvalue <= 359
        /\ kmethod # "Hue" => 0 <= kvalue /\ kvalue <= 255

\* The hue of a pixel whose raw hue, -60/255 degrees, is negative and wrapped.
WrappedHue ==
    kpc = "returned" /\ kmethod = "Hue" /\ kpixel = <<255, 0, 1, 255>> /\ kvalue = 359

\* HSL saturation (max - min) / (1 - |max + min - 1|) of channels scaled to
\* [0, 1], times 255, truncated: in integers, with max and min in 0..255.
HslSaturation(pixel) ==
    LET max  == CHOOSE c \in Range(SubSeq(pixel, 1, 3)) :
                    \A d \in Range(SubSeq(pixel, 1, 3)) : d <= c
        min  == CHOOSE c \in Range(SubSeq(pixel, 1, 3)) :
                    \A d \in Range(SubSeq(pixel, 1, 3)) : c <= d
        dist == IF max + min >= 255 THEN max + min - 255 ELSE 255 - (max + min)
    IN  IF max = min THEN 0 ELSE (255 * (max - min)) \div (255 - dist)

\* C6: saturation is the HSL saturation, scaled by 255 and truncated.
SaturationIsHsl ==
    (kpc = "returned" /\ kmethod = "Saturation") => kvalue = HslSaturation(kpixel)

\* C5: if a sort_image call failed, main ends with a non-zero status.
FailureExitsNonZero ==
    (mpc = "exited" /\ stderr # <<>>) => exit_code # <<0>>

\* C9: every call of sort_image by main has lower <= higher, both within
\* the domain of the metric.
CallsWithinDomain ==
    \A k \in 1..Len(calls) :
        /\ 0 <= calls[k].lower_threshold
        /\ calls[k].lower_threshold <= calls[k].higher_threshold
        /\ calls[k].higher_threshold <= threshold_upper_boundary(calls[k].sorting_method)

\* C10: after every frame of the GUI the thresholds are ordered and within
\* the domain of the selected metric, and no clamp is called with min > max.
GuiThresholdsInDomain ==
    /\ ~clamp_panicked
    /\ mpc = "gui" =>
         /\ 0 <= lower_threshold
         /\ lower_threshold <= higher_threshold
         /\ higher_threshold <= threshold_upper_boundary(sort_by)
====
